---- MODULE Spec2Model ----
(***************************************************************************)
(* godi: a type-keyed provider registry (Container) with eager (Provide),  *)
(* memoized (Lazy) and composed (Chain) providers, and the resolution      *)
(* engine InjectTo / Inject / MustInject with its per-container            *)
(* "injecting" markers.  The model follows the keyed revision              *)
(* (src/unnamed/part_008, lines 1-98): Container{providers, injecting      *)
(* sync.Map}.  Every sync.Map operation and every sync.Once.Do is one      *)
(* atomic step; goroutines interleave between them.                        *)
(***************************************************************************)
EXTENDS Integers, Sequences, FiniteSets, TLC

VARIABLES
    providers,  \* Container.providers : container -> (type key -> provider)
    injecting,  \* Container.injecting : container -> set of type keys stored
    once,       \* per Lazy provider: state of l.once
    lvalue,     \* per Lazy provider: l.value
    lerr,       \* per Lazy provider: l.err
    stack,      \* per goroutine: call stack, innermost frame first
    ret,        \* per goroutine: result handed back by the last returned call
    mode,       \* per goroutine: "run", or "panic" while a panic unwinds
    calls,      \* history: number of invocations of each Lazy factory
    cyc,        \* history: the factory was invoked with its type on a cycle
    produced,   \* history: what the factory's invocation returned
    ev,         \* history: the call the last step completed, per goroutine
    nops,       \* per goroutine: number of top-level calls started so far
    stored,     \* history: per goroutine, the (container, provider) pairs its
                \* Add calls stored
    provlist,   \* slice revision (src/di.go): Container.providers, in order
    hooks,      \* lifecycle example: Lifecycle.hooks, in registration order
    hooksMutex, \* lifecycle example: holder of Lifecycle.hooksMutex
    shutdown    \* lifecycle example: the Shutdown call, its loop index and
                \* what it has invoked and printed so far

\* The state of the Lifecycle helper of examples/10-lifecycle-cleanup.
lifevars == <<hooks, hooksMutex, shutdown>>

\* The state of the containers and of the goroutines using them.
godivars == <<providers, injecting, once, lvalue, lerr, stack, ret, mode,
              calls, cyc, produced, ev, nops, stored, provlist>>

vars == <<godivars, lifevars>>

----------------------------------------------------------------------------
(* Bounds and the universe of inputs *)

MaxOps == 3        \* top-level calls (Add, Inject) the main goroutine makes
MaxAddOps == 2     \* ... and makes while other goroutines register
MaxDiOps == 4      \* top-level calls made on the slice revision (src/di.go)
MaxChainOps == 3   \* top-level calls the main goroutine makes on Chain wiring
MaxMustOps == 3    \* top-level calls made with the Must variants at hand
MaxLiveOps == 3    \* top-level calls the main goroutine makes on cyclic wiring
MaxShutdowns == 2  \* calls of Lifecycle.Shutdown
MaxShareOps == 4   \* top-level calls made with a provider handed to c1 and c2

\* The main goroutine wires the containers and resolves; each worker is a
\* goroutine started to make one Inject call (examples/06-concurrent).
Main       == "main"
Workers    == {"w1"}
\* Goroutines started to make one Add or MustAdd call each.
Adders     == {"w1", "w2"}
Threads    == {Main} \cup Workers \cup Adders
Containers == {"c1", "c2"}
Types      == {"A", "B", "C"}

NoProv == "none"
NoType == "none"

Zero == <<>>                    \* the zero value of any type (var v T)
Nil  == <<>>                    \* the nil error

\* An error is the sequence of its layers, outermost first; %w wrapping
\* prepends a layer.
CircularErr(T) == << [k |-> "circular", t |-> T] >>   \* part_008:47
NotFoundErr(T) == << [k |-> "notfound", t |-> T] >>   \* part_008:56
DuplicateErr(T) == << [k |-> "exists", t |-> T] >>    \* part_008:28
FactoryErr(T)  == << [k |-> "factory", t |-> T] >>    \* the user factory's own error
\* A Lazy wrapper that formats the cause without wrapping it (%v for %w).
CreateErr_NoWrap(T, e) == << [k |-> "create", t |-> T] >>
CreateErr(T, e) == << [k |-> "create", t |-> T] >> \o e   \* part_008:83
Root(e) == e[Len(e)]

\* The providers callers construct.  kind "value" is Provide(v); kind "lazy"
\* is Lazy(f), whose factory f resolves dep from the container it is handed
\* (with Inject, or with MustInject when must), returns the nested error if
\* there is one (di_test.go:410-417) and otherwise val, or its own error
\* when fails.  chain: the provider is Chain(f), the Lazy provider whose
\* factory is the closure of part_008:91-97.
ProvDef ==
    [ pA  |-> [T |-> "A", kind |-> "value", val |-> "x",  dep |-> NoType, must |-> FALSE, fails |-> FALSE, chain |-> FALSE],
      qA  |-> [T |-> "A", kind |-> "value", val |-> "y",  dep |-> NoType, must |-> FALSE, fails |-> FALSE, chain |-> FALSE],
      pB  |-> [T |-> "B", kind |-> "value", val |-> "b",  dep |-> NoType, must |-> FALSE, fails |-> FALSE, chain |-> FALSE],
      pC  |-> [T |-> "C", kind |-> "value", val |-> "c",  dep |-> NoType, must |-> FALSE, fails |-> FALSE, chain |-> FALSE],
      fA  |-> [T |-> "A", kind |-> "lazy",  val |-> "fa", dep |-> NoType, must |-> FALSE, fails |-> TRUE , chain |-> FALSE],
      lA  |-> [T |-> "A", kind |-> "lazy",  val |-> "la", dep |-> "B",    must |-> FALSE, fails |-> FALSE, chain |-> FALSE],
      lB  |-> [T |-> "B", kind |-> "lazy",  val |-> "lb", dep |-> "A",    must |-> FALSE, fails |-> FALSE, chain |-> FALSE],
      mB  |-> [T |-> "B", kind |-> "lazy",  val |-> "mb", dep |-> "C",    must |-> TRUE,  fails |-> FALSE, chain |-> FALSE],
      oC  |-> [T |-> "C", kind |-> "lazy",  val |-> "oc", dep |-> NoType, must |-> FALSE, fails |-> FALSE, chain |-> FALSE],
      sC  |-> [T |-> "C", kind |-> "lazy",  val |-> "sc", dep |-> "C",    must |-> FALSE, fails |-> FALSE, chain |-> FALSE],
      kB  |-> [T |-> "B", kind |-> "lazy",  val |-> "kb", dep |-> "C",    must |-> FALSE, fails |-> FALSE, chain |-> FALSE],
      kC  |-> [T |-> "C", kind |-> "lazy",  val |-> "kc", dep |-> "A",    must |-> FALSE, fails |-> FALSE, chain |-> FALSE],
      cB  |-> [T |-> "B", kind |-> "lazy",  val |-> "cb", dep |-> "A",    must |-> FALSE, fails |-> FALSE, chain |-> TRUE ],
      cC  |-> [T |-> "C", kind |-> "lazy",  val |-> "cc", dep |-> "B",    must |-> FALSE, fails |-> FALSE, chain |-> TRUE ],
      xA  |-> [T |-> "A", kind |-> "lazy",  val |-> "xa", dep |-> "B",    must |-> FALSE, fails |-> FALSE, chain |-> FALSE],
      xB  |-> [T |-> "B", kind |-> "lazy",  val |-> "xb", dep |-> "A",    must |-> FALSE, fails |-> FALSE, chain |-> FALSE],
      rC  |-> [T |-> "C", kind |-> "lazy",  val |-> "rc", dep |-> NoType, must |-> FALSE, fails |-> FALSE, chain |-> FALSE],
      yA  |-> [T |-> "A", kind |-> "lazy",  val |-> "ya", dep |-> "A",    must |-> FALSE, fails |-> FALSE, chain |-> FALSE] ]

\* Factories that use a container they captured instead of the one they are
\* handed: xA resolves its dependency from c2, xB from c1, and yA resolves
\* its own type from c2.
Capture == [xA |-> "c2", xB |-> "c1", yA |-> "c2"]
From(p, c) == IF p \in DOMAIN Capture THEN Capture[p] ELSE c

\* Factories that register a provider in the container they are handed,
\* with c.Add(Provide(v)), before they return.
Registers == [rC |-> "qA"]

ProvIds == DOMAIN ProvDef
LazyIds == {p \in ProvIds : ProvDef[p].kind = "lazy"}

\* The underlying representation of the defined types (di_test.go:495-496:
\* type StringAlias string, type IntAlias int).
Repr == [A |-> "string", B |-> "string", C |-> "int"]

\* A key taken from the underlying representation of the type.
ID_Underlying(p) == CHOOSE T \in Types : Repr[T] = Repr[ProvDef[p].T]

\* prov[T].ID(): the type key of a provider, the nil pointer (*T)(nil) boxed
\* in an interface value; two keys compare equal when their dynamic types
\* *T are identical, that is when they name the same defined type T.
ID(p) == ProvDef[p].T

\* The Add calls callers issue: a container and its provider arguments.
AddInputs ==
    { [c |-> "c1", ps |-> <<"lA", "lB">>],
      [c |-> "c1", ps |-> <<"lA", "kB", "kC">>],
      [c |-> "c1", ps |-> <<"fA">>],
      [c |-> "c1", ps |-> <<"qA">>],
      [c |-> "c1", ps |-> <<"mB">>],
      [c |-> "c1", ps |-> <<"oC">>],
      [c |-> "c1", ps |-> <<"sC">>],
      [c |-> "c2", ps |-> <<"pA">>] }

\* The Add and MustAdd calls goroutines race with on one container.
RaceInputs ==
    { [c |-> "c1", ps |-> <<"pA">>],
      [c |-> "c1", ps |-> <<"qA">>],
      [c |-> "c1", ps |-> <<"pB">>],
      [c |-> "c1", ps |-> <<"pC">>],
      [c |-> "c1", ps |-> <<"pB", "qA", "pC">>] }
MustInputs ==
    { [c |-> "c1", ps |-> <<"qA">>],
      [c |-> "c1", ps |-> <<"pB", "qA">>] }
MainInputs ==
    { [c |-> "c1", ps |-> <<"pA">>],
      [c |-> "c1", ps |-> <<"pC">>] }

\* The providers registered in the slice revision (src/di.go).
DiProvs == {"pA", "fA", "lA", "lB", "oC", "kB"}

\* The container lists callers pass to Inject / InjectTo.
RegLists == { <<"c1">>, <<"c1", "c2">> }
WorkerLists == { <<"c1">> }

\* Chain wiring (di_test.go:568-603): c1 holds a value of A; c2 is given a
\* value of A, a failing or a cyclic Lazy provider of A, or none, and the
\* Chain providers A -> B -> C or a Lazy factory B over A.
ChainInputs ==
    { [c |-> "c1", ps |-> <<"pA">>],
      [c |-> "c2", ps |-> <<"qA", "cB", "cC">>],
      [c |-> "c2", ps |-> <<"cB", "cC">>],
      [c |-> "c2", ps |-> <<"fA">>],
      [c |-> "c2", ps |-> <<"lA">>],
      [c |-> "c2", ps |-> <<"qA", "lB">>] }
ChainLists == { <<"c2">>, <<"c1", "c2">> }

\* Cyclic wiring: a cycle across c1 and c2, a self-referential provider, a
\* cycle within c2, a factory that registers a provider and a factory that
\* resolves its own type from the other container.
LiveInputs ==
    { [c |-> "c1", ps |-> <<"xA", "sC">>],
      [c |-> "c2", ps |-> <<"xB", "rC">>],
      [c |-> "c2", ps |-> <<"lB", "lA">>],
      [c |-> "c1", ps |-> <<"yA">>] }
LiveLists == { <<"c1">>, <<"c2", "c1">> }

\* One Lazy provider handed to c1 and to c2, its factory resolving its own
\* type from c2, next to providers held by one container.
ShareInputs ==
    { [c |-> "c1", ps |-> <<"yA">>],
      [c |-> "c2", ps |-> <<"yA">>],
      [c |-> "c2", ps |-> <<"qA">>],
      [c |-> "c1", ps |-> <<"kB">>] }
ShareLists == { <<"c1">>, <<"c2">> }

\* The Add / MustAdd calls made where both variants are exercised
\* (di_test.go:120-185), and the provider pA handed to c2 as well as to c1
\* (Add takes any Provider, part_008:24).
BothInputs ==
    MustInputs \cup MainInputs
        \cup { [c |-> "c1", ps |-> <<"fA">>], [c |-> "c1", ps |-> <<"sC">>],
               [c |-> "c2", ps |-> <<"pA">>] }

\* The content of the variable a caller hands to InjectTo.
Old == << "old" >>

----------------------------------------------------------------------------
(* State after construction: empty containers, fresh providers *)

NoVal == << "none" >>
NoRet == [v |-> Zero, err |-> Nil]
Val(p) == << ProvDef[p].val >>

NoFrame ==
    [fn |-> "none", T |-> NoType, cs |-> <<>>, i |-> 0, pc |-> "none",
     p |-> NoProv, dst |-> Zero, err |-> Nil, must |-> FALSE, ps |-> <<>>,
     gen |-> 0, late |-> FALSE, k |-> 0, dst0 |-> Zero, p0 |-> NoProv]

NoEv ==
    [fn |-> "none", T |-> NoType, cs |-> <<>>, i |-> 0, p |-> NoProv,
     v |-> Zero, err |-> Nil, ps |-> <<>>, gen |-> 0, late |-> FALSE,
     marks |-> {}, must |-> FALSE, dst0 |-> Zero, p0 |-> NoProv]

\* The shutdown hooks the example registers from its Lazy factories
\* (examples/10-lifecycle-cleanup/main.go:131-133, 144-146, 157-159).
Hooks == {"dbClose", "cacheClose", "serviceShutdown"}

\* ctx.Err() of a context that is done.
CtxErr == << [k |-> "ctx", t |-> NoType] >>

\* What a hook can return: Database.Close and Cache.Close return nil
\* (main.go:23-27, 35-39); Service.Shutdown returns ctx.Err() when the
\* context is done before its timer fires, and nil otherwise (main.go:46-55).
HookResults(h) == IF h = "serviceShutdown" THEN {Nil, CtxErr} ELSE {Nil}

\* No Shutdown call has been made.  pc: "idle", "loop" inside the for loop
\* of main.go:84-88, "returned"; i: the loop index (1-based); ran: the hooks
\* invoked, in order; printed: the indices of the "Shutdown hook %d error"
\* lines; ret: the error Shutdown returned; n: the calls started.
NoShutdown ==
    [pc |-> "idle", i |-> 0, ran |-> <<>>, printed |-> <<>>, ret |-> Nil, n |-> 0]

Init ==
    /\ hooks = <<>>
    /\ hooksMutex = FALSE
    /\ shutdown = NoShutdown
    /\ providers = [c \in Containers |-> [T \in Types |-> NoProv]]
    /\ injecting = [c \in Containers |-> {}]
    /\ once      = [p \in LazyIds |-> "new"]
    /\ lvalue    = [p \in LazyIds |-> Zero]
    /\ lerr      = [p \in LazyIds |-> Nil]
    /\ stack     = [t \in Threads |-> <<>>]
    /\ ret       = [t \in Threads |-> NoRet]
    /\ mode      = [t \in Threads |-> "run"]
    /\ calls     = [p \in LazyIds |-> 0]
    /\ cyc       = [p \in LazyIds |-> FALSE]
    /\ produced  = [p \in LazyIds |-> NoVal]
    /\ ev        = [t \in Threads |-> NoEv]
    /\ nops      = [t \in Threads |-> 0]
    /\ stored    = [t \in Threads |-> {}]
    /\ provlist  = [c \in Containers |-> <<>>]

Top(t)  == Head(stack[t])
CanCall(t) ==
    /\ stack[t] = <<>>
    /\ mode[t] = "run"
    /\ nops[t] < (IF t = Main THEN MaxOps ELSE 1)
Running(t, fn, pc) ==
    /\ mode[t] = "run"
    /\ stack[t] # <<>>
    /\ Top(t).fn = fn
    /\ Top(t).pc = pc

\* ev holds the call completed by the step just taken, and nothing else.
Ev(t, e) == [u \in Threads |-> IF u = t THEN e ELSE NoEv]
NoEvs    == [u \in Threads |-> NoEv]

\* History: the number of providers registered so far (the containers are
\* append-only, so an unchanged count means unchanged containers), and
\* whether the first listed container's provider of T is a Lazy provider
\* that has memoized an error.
Registered == Cardinality({x \in Containers \X Types : providers[x[1]][x[2]] # NoProv})
Failed(p)  == p \in LazyIds /\ once[p] = "done" /\ lerr[p] # Nil
FailedAt(T, cs) == cs # <<>> /\ Failed(providers[cs[1]][T])

\* The frame of a call InjectTo[T](&v, cs...); must: made through MustInject.
\* gen, late and p0 are history: Registered, FailedAt and the provider of T
\* in the first listed container when the call started.
InjectFrame(T, cs, must) ==
    [NoFrame EXCEPT !.fn = "InjectTo", !.T = T, !.cs = cs, !.i = 1,
                    !.pc = "L45", !.must = must,
                    !.gen = Registered, !.late = FailedAt(T, cs),
                    !.p0 = IF cs = <<>> THEN NoProv ELSE providers[cs[1]][T]]

InjectEv(f, v, e) ==
    [NoEv EXCEPT !.fn = "InjectTo", !.T = f.T, !.cs = f.cs, !.i = f.i,
                 !.p = f.p, !.v = v, !.err = e, !.gen = f.gen,
                 !.late = f.late, !.must = f.must, !.dst0 = f.dst0,
                 !.p0 = f.p0]

\* The frame of a running Lazy factory f(c) of provider p, waiting for the
\* Inject of its dependency.
FactoryFrame(p, c) ==
    [NoFrame EXCEPT !.fn = "factory", !.T = ID(p), !.cs = <<c>>, !.i = 1,
                    !.pc = "L92", !.p = p]

----------------------------------------------------------------------------
(* Dependency cycles among the Lazy providers of a container *)

\* The type the Lazy provider of X in container c resolves in its factory
\* with Inject, returning the nested error.
Dep(c, X) ==
    IF X = NoType THEN NoType
    ELSE LET p == providers[c][X] IN
         IF p \in LazyIds /\ ~ProvDef[p].must /\ ~ProvDef[p].chain
              /\ p \notin DOMAIN Capture
           THEN ProvDef[p].dep ELSE NoType

RECURSIVE DepN(_, _, _)
DepN(c, X, n) == IF n = 0 THEN X ELSE Dep(c, DepN(c, X, n - 1))

\* The types on the dependency cycle through T in c, if T is on one.
Hops == 1..Cardinality(Types)
OnCycle(c, T) == \E n \in Hops : DepN(c, T, n) = T
CycleOf(c, T) == {DepN(c, T, n) : n \in Hops} \ {NoType}

----------------------------------------------------------------------------
(* User factories: Lazy(f) and Chain(f), part_008:75-98 *)

\* What the user function returns, given the resolved dependency r.
UserFn(p, r) ==
    IF ProvDef[p].fails THEN [v |-> Zero, err |-> FactoryErr(ID(p))]
                        ELSE [v |-> Val(p) \o r, err |-> Nil]

\* The factory after its nested Inject returned (r, e).  A factory written
\* by the caller returns the nested error (di_test.go:410-417).  Chain's
\* closure (part_008:91-96) declares the results (zero T, _ error) and
\* binds the nested error to a new local err; its bare return on err # nil
\* returns the result parameters, the zero value and a nil error.  Without a
\* nested error the user function maps r.
FactoryResult(p, r, e) ==
    IF e # Nil
      THEN [v |-> Zero, err |-> IF ProvDef[p].chain THEN Nil ELSE e]
      ELSE UserFn(p, r)

----------------------------------------------------------------------------
(* Inject / InjectTo / MustInject, part_008:43-73 *)

\* A goroutine calls Inject[T](cs...).
CallInject(t, T, cs) ==
    /\ CanCall(t)
    /\ nops' = [nops EXCEPT ![t] = @ + 1]
    /\ stack' = [stack EXCEPT ![t] = << InjectFrame(T, cs, FALSE) >>]
    /\ ev' = NoEvs
    /\ UNCHANGED <<lifevars, provlist, stored, providers, injecting, once, lvalue, lerr, ret, mode,
                   calls, cyc, produced>>

\* part_008:43: a goroutine calls InjectTo(&v, cs...) with a variable v that
\* holds d; dst0 is history: the destination's content when the call
\* started.
CallInjectTo(t, T, cs, d) ==
    /\ CanCall(t)
    /\ nops' = [nops EXCEPT ![t] = @ + 1]
    /\ stack' = [stack EXCEPT ![t] =
            << [InjectFrame(T, cs, FALSE) EXCEPT !.dst = d, !.dst0 = d] >>]
    /\ ev' = NoEvs
    /\ UNCHANGED <<lifevars, provlist, stored, providers, injecting, once, lvalue, lerr, ret, mode,
                   calls, cyc, produced>>

\* part_008:67-68: a goroutine calls MustInject[T](cs...).
CallMustInject(t, T, cs) ==
    /\ CanCall(t)
    /\ nops' = [nops EXCEPT ![t] = @ + 1]
    /\ stack' = [stack EXCEPT ![t] = << InjectFrame(T, cs, TRUE) >>]
    /\ ev' = NoEvs
    /\ UNCHANGED <<lifevars, provlist, stored, providers, injecting, once, lvalue, lerr, ret, mode,
                   calls, cyc, produced>>

\* A MustInject that hands back the zero value where Inject fails.
ReturnInject_NoPanic(t, f, v, e) ==
    LET rest == Tail(stack[t]) IN
    /\ ev' = Ev(t, InjectEv(f, v, e))
    /\ IF rest = <<>>
         THEN /\ stack' = [stack EXCEPT ![t] = rest]
              /\ UNCHANGED <<ret, produced, mode>>
         ELSE LET r == FactoryResult(Head(rest).p, v, e) IN
              /\ stack' = [stack EXCEPT ![t] = Tail(rest)]
              /\ ret' = [ret EXCEPT ![t] = r]
              /\ produced' = [produced EXCEPT ![Head(rest).p] = r.v]
              /\ mode' = mode

\* InjectTo returns (v, e).  MustInject panics when e is an error
\* (part_008:67-73).  A factory that made the call runs on to its own
\* return (steps local to the goroutine) and hands its result to once.Do.
ReturnInject(t, f, v, e) ==
    LET rest == Tail(stack[t]) IN
    /\ ev' = Ev(t, InjectEv(f, v, e))
    /\ IF f.must /\ e # Nil
         THEN /\ mode' = [mode EXCEPT ![t] = "panic"]
              /\ stack' = [stack EXCEPT ![t] = rest]
              /\ UNCHANGED <<ret, produced>>
         ELSE IF rest = <<>>
           THEN /\ stack' = [stack EXCEPT ![t] = rest]
                /\ UNCHANGED <<ret, produced, mode>>
           ELSE LET r == FactoryResult(Head(rest).p, v, e) IN
                /\ stack' = [stack EXCEPT ![t] = Tail(rest)]
                /\ ret' = [ret EXCEPT ![t] = r]
                /\ produced' = [produced EXCEPT ![Head(rest).p] = r.v]
                /\ mode' = mode

\* An InjectTo that does not look at the marker LoadOrStore finds.
L45_NoCheck(t) ==
    /\ Running(t, "InjectTo", "L45")
    /\ LET f == Top(t) IN
       IF f.i > Len(f.cs)
         THEN /\ ReturnInject(t, f, f.dst, NotFoundErr(f.T))
              /\ UNCHANGED injecting
         ELSE /\ injecting' = [injecting EXCEPT ![f.cs[f.i]] = @ \cup {f.T}]
              /\ stack' = [stack EXCEPT ![t] = << [f EXCEPT !.pc = "L49"] >> \o Tail(@)]
              /\ ev' = NoEvs
              /\ UNCHANGED <<ret, mode, produced>>
    /\ UNCHANGED <<lifevars, provlist, stored, providers, once, lvalue, lerr, calls, cyc, nops>>

\* part_008:45-48 and 56: the loop head.  Past the last container the call
\* fails with not found; otherwise injecting.LoadOrStore(id, true) either
\* finds the marker (circular dependency) or stores it.
L45(t) ==
    /\ Running(t, "InjectTo", "L45")
    /\ LET f == Top(t) IN
       IF f.i > Len(f.cs)
         THEN /\ ReturnInject(t, f, f.dst, NotFoundErr(f.T))
              /\ UNCHANGED injecting
         ELSE IF f.T \in injecting[f.cs[f.i]]
           THEN /\ ReturnInject(t, f, f.dst, CircularErr(f.T))
                /\ UNCHANGED injecting
           ELSE /\ injecting' = [injecting EXCEPT ![f.cs[f.i]] = @ \cup {f.T}]
                /\ stack' = [stack EXCEPT ![t] = << [f EXCEPT !.pc = "L49"] >> \o Tail(@)]
                /\ ev' = NoEvs
                /\ UNCHANGED <<ret, mode, produced>>
    /\ UNCHANGED <<lifevars, provlist, stored, providers, once, lvalue, lerr, calls, cyc, nops>>

\* part_008:49-50: providers.Load(id).  A Provide(v) provider found is
\* evaluated on the spot (part_008:19: its closure copies v into the
\* destination and returns nil); a Lazy provider goes to its once.
L49(t) ==
    /\ Running(t, "InjectTo", "L49")
    /\ LET f == Top(t)
           p == providers[f.cs[f.i]][f.T]
       IN  stack' = [stack EXCEPT ![t] =
                << IF p = NoProv THEN [f EXCEPT !.pc = "L54"]
                   ELSE IF ProvDef[p].kind = "value"
                     THEN [f EXCEPT !.pc = "L51", !.p = p, !.dst = Val(p), !.err = Nil]
                     ELSE [f EXCEPT !.pc = "L82", !.p = p] >> \o Tail(@)]
    /\ ev' = NoEvs
    /\ UNCHANGED <<lifevars, provlist, stored, providers, injecting, once, lvalue, lerr, ret, mode,
                   calls, cyc, produced, nops>>

\* part_008:54: the container has no provider: injecting.Delete(id), next
\* container.
L54(t) ==
    /\ Running(t, "InjectTo", "L54")
    /\ LET f == Top(t) IN
       /\ injecting' = [injecting EXCEPT ![f.cs[f.i]] = @ \ {f.T}]
       /\ stack' = [stack EXCEPT ![t] =
                << [f EXCEPT !.pc = "L45", !.i = f.i + 1] >> \o Tail(@)]
    /\ ev' = NoEvs
    /\ UNCHANGED <<lifevars, provlist, stored, providers, once, lvalue, lerr, ret, mode,
                   calls, cyc, produced, nops>>

\* A once that runs its function again after it has completed.
OnceDo_Again(t) ==
    /\ Running(t, "InjectTo", "L82")
    /\ once[Top(t).p] # "running"
    /\ LET f == Top(t) IN
       /\ once' = [once EXCEPT ![f.p] = "running"]
       /\ calls' = [calls EXCEPT ![f.p] = @ + 1]
       /\ cyc' = cyc
       /\ stack' = [stack EXCEPT ![t] = << [f EXCEPT !.pc = "L82r"] >> \o Tail(@)]
       /\ ret' = [ret EXCEPT ![t] = UserFn(f.p, Zero)]
       /\ produced' = [produced EXCEPT ![f.p] = UserFn(f.p, Zero).v]
    /\ ev' = NoEvs
    /\ UNCHANGED <<lifevars, provlist, stored, providers, injecting, lvalue, lerr, mode, nops>>

\* A once.Do whose factory resolves from the containers of the call that
\* reached the provider instead of the provider's own container.
OnceDo_CallList(t) ==
    /\ Running(t, "InjectTo", "L82")
    /\ once[Top(t).p] = "new"
    /\ LET f == Top(t)
           d == ProvDef[f.p]
           c == f.cs[f.i]
       IN
       /\ once' = [once EXCEPT ![f.p] = "running"]
       /\ calls' = [calls EXCEPT ![f.p] = @ + 1]
       /\ cyc' = [cyc EXCEPT ![f.p] = OnCycle(c, f.T)]
       /\ IF d.dep = NoType
            THEN /\ stack' = [stack EXCEPT ![t] = << [f EXCEPT !.pc = "L82r"] >> \o Tail(@)]
                 /\ ret' = [ret EXCEPT ![t] = UserFn(f.p, Zero)]
                 /\ produced' = [produced EXCEPT ![f.p] = UserFn(f.p, Zero).v]
            ELSE /\ stack' = [stack EXCEPT ![t] =
                        << InjectFrame(d.dep, f.cs, d.must), FactoryFrame(f.p, c),
                           [f EXCEPT !.pc = "L82r"] >> \o Tail(@)]
                 /\ UNCHANGED <<ret, produced>>
    /\ ev' = NoEvs
    /\ UNCHANGED <<lifevars, provlist, stored, providers, injecting, lvalue, lerr, mode, nops>>

\* part_008:82: l.once.Do on a fresh once: this goroutine runs the factory
\* f(c) with the container the provider was found in.  A factory without a
\* dependency returns; one with a dependency calls Inject[R](c)
\* (part_008:92) or MustInject[R](c).
OnceDo(t) ==
    /\ Running(t, "InjectTo", "L82")
    /\ once[Top(t).p] = "new"
    /\ LET f == Top(t)
           d == ProvDef[f.p]
           c == f.cs[f.i]
       IN
       /\ once' = [once EXCEPT ![f.p] = "running"]
       /\ calls' = [calls EXCEPT ![f.p] = @ + 1]
       /\ cyc' = [cyc EXCEPT ![f.p] = OnCycle(c, f.T)]
       /\ IF f.p \in DOMAIN Registers
            THEN /\ stack' = [stack EXCEPT ![t] =
                        << [FactoryFrame(f.p, c) EXCEPT !.pc = "LAdd"],
                           [f EXCEPT !.pc = "L82r"] >> \o Tail(@)]
                 /\ UNCHANGED <<ret, produced>>
            ELSE IF d.dep = NoType
            THEN /\ stack' = [stack EXCEPT ![t] = << [f EXCEPT !.pc = "L82r"] >> \o Tail(@)]
                 /\ ret' = [ret EXCEPT ![t] = UserFn(f.p, Zero)]
                 /\ produced' = [produced EXCEPT ![f.p] = UserFn(f.p, Zero).v]
            ELSE /\ stack' = [stack EXCEPT ![t] =
                        << InjectFrame(d.dep, << From(f.p, c) >>, d.must),
                           FactoryFrame(f.p, c),
                           [f EXCEPT !.pc = "L82r"] >> \o Tail(@)]
                 /\ UNCHANGED <<ret, produced>>
    /\ ev' = NoEvs
    /\ UNCHANGED <<lifevars, provlist, stored, providers, injecting, lvalue, lerr, mode, nops>>

\* A factory registers its provider with c.Add(Provide(v)) (part_008:25-26,
\* one LoadOrStore; it does not look at the error) and returns its value.
FactoryAdd(t) ==
    /\ Running(t, "factory", "LAdd")
    /\ LET f == Top(t)
           c == f.cs[1]
           q == Registers[f.p]
       IN
       /\ IF providers[c][ID(q)] # NoProv
            THEN UNCHANGED <<providers, stored>>
            ELSE /\ providers' = [providers EXCEPT ![c][ID(q)] = q]
                 /\ stored' = [stored EXCEPT ![t] = @ \cup {<<c, q>>}]
       /\ stack' = [stack EXCEPT ![t] = Tail(@)]
       /\ ret' = [ret EXCEPT ![t] = UserFn(f.p, Zero)]
       /\ produced' = [produced EXCEPT ![f.p] = UserFn(f.p, Zero).v]
    /\ ev' = NoEvs
    /\ UNCHANGED <<lifevars, provlist, injecting, once, lvalue, lerr, mode, calls, cyc, nops>>

\* A Lazy closure that copies l.value into the destination before it looks
\* at l.err.
Memo_CopyFirst(f, v, e) ==
    IF e # Nil THEN [f EXCEPT !.pc = "L51", !.dst = v, !.err = CreateErr(f.T, e)]
               ELSE [f EXCEPT !.pc = "L51", !.dst = v, !.err = Nil]

\* part_008:82-86 once the memo cell is filled: the error wrapped with the
\* target type, or the cached value copied into the destination.
Memo(f, v, e) ==
    IF e # Nil THEN [f EXCEPT !.pc = "L51", !.err = CreateErr(f.T, e)]
               ELSE [f EXCEPT !.pc = "L51", !.dst = v, !.err = Nil]

\* part_008:82: l.once.Do on a once that is done returns at once (a once that
\* another goroutine is running blocks the caller: no step).
OnceDone(t) ==
    /\ Running(t, "InjectTo", "L82")
    /\ once[Top(t).p] = "done"
    /\ LET f == Top(t) IN
       stack' = [stack EXCEPT ![t] =
            << Memo(f, lvalue[f.p], lerr[f.p]) >> \o Tail(@)]
    /\ ev' = NoEvs
    /\ UNCHANGED <<lifevars, provlist, stored, providers, injecting, once, lvalue, lerr, ret, mode,
                   calls, cyc, produced, nops>>

\* part_008:82: the factory has returned: l.value, l.err = f(c), the once is
\* done, then lines 82-86.
OnceReturn(t) ==
    /\ Running(t, "InjectTo", "L82r")
    /\ LET f == Top(t) IN
       /\ lvalue' = [lvalue EXCEPT ![f.p] = ret[t].v]
       /\ lerr'   = [lerr EXCEPT ![f.p] = ret[t].err]
       /\ once'   = [once EXCEPT ![f.p] = "done"]
       /\ stack'  = [stack EXCEPT ![t] =
            << Memo(f, ret[t].v, ret[t].err) >> \o Tail(@)]
       /\ ret'    = [ret EXCEPT ![t] = NoRet]
    /\ ev' = NoEvs
    /\ UNCHANGED <<lifevars, provlist, stored, providers, injecting, mode, calls, cyc, produced, nops>>

\* An InjectTo that goes on to the next container when the provider it
\* found fails.
L51_FallThrough(t) ==
    /\ Running(t, "InjectTo", "L51")
    /\ LET f == Top(t) IN
       /\ injecting' = [injecting EXCEPT ![f.cs[f.i]] = @ \ {f.T}]
       /\ IF f.err # Nil
            THEN /\ stack' = [stack EXCEPT ![t] =
                        << [f EXCEPT !.pc = "L45", !.i = f.i + 1, !.err = Nil] >> \o Tail(@)]
                 /\ ev' = NoEvs
                 /\ UNCHANGED <<ret, mode, produced>>
            ELSE ReturnInject(t, f, f.dst, f.err)
    /\ UNCHANGED <<lifevars, provlist, stored, providers, once, lvalue, lerr, calls, cyc, nops>>

\* part_008:50-52: the provider was evaluated: injecting.Delete(id), return
\* its result.
L51(t) ==
    /\ Running(t, "InjectTo", "L51")
    /\ LET f == Top(t) IN
       /\ injecting' = [injecting EXCEPT ![f.cs[f.i]] = @ \ {f.T}]
       /\ ReturnInject(t, f, f.dst, f.err)
    /\ UNCHANGED <<lifevars, provlist, stored, providers, once, lvalue, lerr, calls, cyc, nops>>

----------------------------------------------------------------------------
(* Panics: a panic unwinds the goroutine's frames up to the recover of the
   top-level caller.  InjectTo has no deferred call (part_008:43-57), so its
   frames are dropped as they are; sync.Once.Do marks its once done in a
   deferred call, with l.value and l.err never assigned. *)

HoldsMarker(f) ==
    f.fn = "InjectTo" /\ f.pc \in {"L49", "L82", "L82r", "L51", "L54"}

Frames(t) == {stack[t][k] : k \in 1..Len(stack[t])}

Unwind(t) ==
    /\ mode[t] = "panic"
    /\ stack' = [stack EXCEPT ![t] = <<>>]
    /\ mode' = [mode EXCEPT ![t] = "run"]
    /\ once' = [p \in LazyIds |->
                 IF \E f \in Frames(t) : f.fn = "factory" /\ f.p = p
                   THEN "done" ELSE once[p]]
    /\ ev' = Ev(t, [NoEv EXCEPT !.fn = "recover",
                      !.marks = {<<f.cs[f.i], f.T>> : f \in {g \in Frames(t) : HoldsMarker(g)}}])
    /\ UNCHANGED <<lifevars, provlist, stored, providers, injecting, lvalue, lerr, ret, calls, cyc, produced, nops>>

----------------------------------------------------------------------------
(* Container.Add, part_008:24-32 *)

\* gen is history: Registered when the call started.
AddFrame(c, ps) ==
    [NoFrame EXCEPT !.fn = "Add", !.cs = <<c>>, !.ps = ps, !.i = 1, !.pc = "L25",
                    !.gen = Registered]

CallAdd(t, in) ==
    /\ CanCall(t)
    /\ nops' = [nops EXCEPT ![t] = @ + 1]
    /\ stack' = [stack EXCEPT ![t] = << AddFrame(in.c, in.ps) >>]
    /\ ev' = NoEvs
    /\ UNCHANGED <<lifevars, provlist, stored, providers, injecting, once, lvalue, lerr, ret, mode,
                   calls, cyc, produced>>

AddEv(f, e) ==
    [NoEv EXCEPT !.fn = "Add", !.cs = f.cs, !.ps = f.ps, !.i = f.i, !.err = e,
                 !.gen = f.gen]

\* part_008:35-36: MustAdd at its loop head calls c.Add(p) for the next
\* provider, if there is one (steps local to the goroutine).
MustAddTurn(f) ==
    IF f.i <= Len(f.ps) THEN << AddFrame(f.cs[1], << f.ps[f.i] >>), f >>
                        ELSE << f >>

\* An Add call returns e to its caller.  A top-level call ends; MustAdd
\* (part_008:36-38) panics on an error and otherwise goes on with its loop.
ReturnAdd(t, f, e) ==
    LET rest == Tail(stack[t]) IN
    /\ ev' = Ev(t, AddEv(f, e))
    /\ IF rest = <<>>
         THEN /\ stack' = [stack EXCEPT ![t] = rest]
              /\ mode' = mode
         ELSE IF e # Nil
           THEN /\ stack' = [stack EXCEPT ![t] = rest]
                /\ mode' = [mode EXCEPT ![t] = "panic"]
           ELSE /\ stack' = [stack EXCEPT ![t] =
                        MustAddTurn([Head(rest) EXCEPT !.i = @ + 1]) \o Tail(rest)]
                /\ mode' = mode

\* part_008:25 and 31: the provider at f.i is dealt with: the loop goes on
\* to the next provider, or the call returns nil after the last one.
AddAdvance(t, f) ==
    IF f.i >= Len(f.ps)
      THEN ReturnAdd(t, [f EXCEPT !.i = Len(f.ps) + 1], Nil)
      ELSE /\ stack' = [stack EXCEPT ![t] = << [f EXCEPT !.i = f.i + 1] >> \o Tail(@)]
           /\ ev' = NoEvs
           /\ mode' = mode

\* An Add that stores with Store: a held key is overwritten.
L25_Store(t) ==
    /\ Running(t, "Add", "L25")
    /\ LET f == Top(t)
           c == f.cs[1]
       IN  IF f.i > Len(f.ps)
             THEN AddAdvance(t, f) /\ UNCHANGED <<providers, stored>>
             ELSE /\ providers' = [providers EXCEPT ![c][ID(f.ps[f.i])] = f.ps[f.i]]
                  /\ stored' = [stored EXCEPT ![t] = @ \cup {<<c, f.ps[f.i]>>}]
                  /\ AddAdvance(t, f)
    /\ UNCHANGED <<lifevars, provlist, injecting, once, lvalue, lerr, ret, calls, cyc,
                   produced, nops>>

\* An Add that undoes what it stored when it meets a duplicate.
L25_AllOrNothing(t) ==
    /\ Running(t, "Add", "L25")
    /\ LET f == Top(t)
           c == f.cs[1]
           mine == {ID(f.ps[j]) : j \in 1..(f.i - 1)}
       IN  IF f.i > Len(f.ps)
             THEN AddAdvance(t, f) /\ UNCHANGED <<providers, stored>>
             ELSE IF providers[c][ID(f.ps[f.i])] # NoProv
               THEN /\ ReturnAdd(t, f, DuplicateErr(ID(f.ps[f.i])))
                    /\ providers' = [providers EXCEPT ![c] =
                            [T \in Types |-> IF T \in mine THEN NoProv ELSE @[T]]]
                    /\ stored' = [stored EXCEPT ![t] =
                            @ \ {<<c, f.ps[j]>> : j \in 1..(f.i - 1)}]
               ELSE /\ providers' = [providers EXCEPT ![c][ID(f.ps[f.i])] = f.ps[f.i]]
                    /\ stored' = [stored EXCEPT ![t] = @ \cup {<<c, f.ps[f.i]>>}]
                    /\ AddAdvance(t, f)
    /\ UNCHANGED <<lifevars, provlist, injecting, once, lvalue, lerr, ret, calls, cyc,
                   produced, nops>>

\* An Add that passes over a duplicate and goes on with the providers
\* listed after it.
L25_SkipDup(t) ==
    /\ Running(t, "Add", "L25")
    /\ LET f == Top(t)
           c == f.cs[1]
       IN  IF f.i > Len(f.ps)
             THEN AddAdvance(t, f) /\ UNCHANGED <<providers, stored>>
             ELSE IF providers[c][ID(f.ps[f.i])] # NoProv
               THEN IF f.i = Len(f.ps)
                      THEN /\ ReturnAdd(t, f, DuplicateErr(ID(f.ps[f.i])))
                           /\ UNCHANGED <<providers, stored>>
                      ELSE /\ AddAdvance(t, f)
                           /\ UNCHANGED <<providers, stored>>
               ELSE /\ providers' = [providers EXCEPT ![c][ID(f.ps[f.i])] = f.ps[f.i]]
                    /\ stored' = [stored EXCEPT ![t] = @ \cup {<<c, f.ps[f.i]>>}]
                    /\ AddAdvance(t, f)
    /\ UNCHANGED <<lifevars, provlist, injecting, once, lvalue, lerr, ret, calls, cyc,
                   produced, nops>>

\* An Add that looks the key up with Load and stores with Store in a later
\* step: check-then-act.
L25_Racy(t) ==
    /\ mode[t] = "run" /\ stack[t] # <<>> /\ Top(t).fn = "Add"
    /\ LET f == Top(t)
           c == f.cs[1]
       IN  IF f.i > Len(f.ps)
             THEN AddAdvance(t, f) /\ UNCHANGED <<providers, stored>>
             ELSE IF f.pc = "L25"
               THEN IF providers[c][ID(f.ps[f.i])] # NoProv
                      THEN /\ ReturnAdd(t, f, DuplicateErr(ID(f.ps[f.i])))
                           /\ UNCHANGED <<providers, stored>>
                      ELSE /\ stack' = [stack EXCEPT ![t] =
                                   << [f EXCEPT !.pc = "L27"] >> \o Tail(@)]
                           /\ ev' = NoEvs
                           /\ UNCHANGED <<providers, stored, mode>>
               ELSE /\ providers' = [providers EXCEPT ![c][ID(f.ps[f.i])] = f.ps[f.i]]
                    /\ stored' = [stored EXCEPT ![t] = @ \cup {<<c, f.ps[f.i]>>}]
                    /\ AddAdvance(t, [f EXCEPT !.pc = "L25"])
    /\ UNCHANGED <<lifevars, provlist, injecting, once, lvalue, lerr, ret, calls, cyc,
                   produced, nops>>

\* An Add whose store does not reach the container.
L25_Lost(t) ==
    /\ Running(t, "Add", "L25")
    /\ LET f == Top(t)
           c == f.cs[1]
       IN  IF f.i > Len(f.ps)
             THEN AddAdvance(t, f) /\ UNCHANGED <<providers, stored>>
             ELSE IF providers[c][ID(f.ps[f.i])] # NoProv
               THEN /\ ReturnAdd(t, f, DuplicateErr(ID(f.ps[f.i])))
                    /\ UNCHANGED <<providers, stored>>
               ELSE /\ providers' = providers
                    /\ stored' = [stored EXCEPT ![t] = @ \cup {<<c, f.ps[f.i]>>}]
                    /\ AddAdvance(t, f)
    /\ UNCHANGED <<lifevars, provlist, injecting, once, lvalue, lerr, ret, calls, cyc,
                   produced, nops>>

\* part_008:25-31: one turn of the loop: providers.LoadOrStore(id, p),
\* returning the duplicate error when the key exists; after the last
\* provider (and for an empty list) the call returns nil.
L25(t) ==
    /\ Running(t, "Add", "L25")
    /\ LET f == Top(t)
           c == f.cs[1]
       IN  IF f.i > Len(f.ps)
             THEN AddAdvance(t, f) /\ UNCHANGED <<providers, stored>>
             ELSE IF providers[c][ID(f.ps[f.i])] # NoProv
               THEN /\ ReturnAdd(t, f, DuplicateErr(ID(f.ps[f.i])))
                    /\ UNCHANGED <<providers, stored>>
               ELSE /\ providers' = [providers EXCEPT ![c][ID(f.ps[f.i])] = f.ps[f.i]]
                    /\ stored' = [stored EXCEPT ![t] = @ \cup {<<c, f.ps[f.i]>>}]
                    /\ AddAdvance(t, f)
    /\ UNCHANGED <<lifevars, provlist, injecting, once, lvalue, lerr, ret, calls, cyc,
                   produced, nops>>

----------------------------------------------------------------------------
(* Container.MustAdd, part_008:34-41 *)

MustAddFrame(c, ps) ==
    [NoFrame EXCEPT !.fn = "MustAdd", !.cs = <<c>>, !.ps = ps, !.i = 1,
                    !.pc = "L35", !.gen = Registered]

CallMustAdd(t, in) ==
    /\ CanCall(t)
    /\ nops' = [nops EXCEPT ![t] = @ + 1]
    /\ stack' = [stack EXCEPT ![t] = MustAddTurn(MustAddFrame(in.c, in.ps))]
    /\ ev' = NoEvs
    /\ UNCHANGED <<lifevars, provlist, stored, providers, injecting, once, lvalue, lerr,
                   ret, mode, calls, cyc, produced>>

\* part_008:35 and 40: past the last provider MustAdd returns the container.
L35(t) ==
    /\ Running(t, "MustAdd", "L35")
    /\ LET f == Top(t) IN
       /\ f.i > Len(f.ps)
       /\ stack' = [stack EXCEPT ![t] = Tail(@)]
       /\ ev' = Ev(t, [AddEv(f, Nil) EXCEPT !.fn = "MustAdd"])
    /\ UNCHANGED <<lifevars, provlist, stored, providers, injecting, once, lvalue, lerr,
                   ret, mode, calls, cyc, produced, nops>>

----------------------------------------------------------------------------
(* The program: goroutines interleave at every step *)

Next ==
    \/ \E T \in Types, cs \in RegLists : CallInject(Main, T, cs)
    \/ \E in \in AddInputs : CallAdd(Main, in)
    \/ \E w \in Workers, T \in Types, cs \in WorkerLists : CallInject(w, T, cs)
    \/ \E t \in Threads :
        \/ L45(t)
        \/ L49(t)
        \/ L54(t)
        \/ OnceDo(t)
        \/ OnceDone(t)
        \/ OnceReturn(t)
        \/ L51(t)
        \/ Unwind(t)
        \/ L25(t)

Spec == Init /\ [][Next]_vars

\* Registration races: every goroutine registers Provide providers in one
\* container with Add or MustAdd, and the main goroutine resolves.
NextAdd ==
    \/ \E in \in MainInputs : nops[Main] < MaxAddOps /\ CallAdd(Main, in)
    \/ \E t \in Adders, in \in RaceInputs : CallAdd(t, in)
    \/ \E t \in Adders, in \in MustInputs : CallMustAdd(t, in)
    \/ \E T \in Types : nops[Main] < MaxAddOps /\ CallInject(Main, T, <<"c1">>)
    \/ \E t \in Threads :
        \/ L25(t)
        \/ L35(t)
        \/ L45(t)
        \/ L49(t)
        \/ L54(t)
        \/ L51(t)
        \/ Unwind(t)

SpecAdd == Init /\ [][NextAdd]_vars

\* Chain providers: the main goroutine wires c1 and c2 and resolves through
\* either list; a worker resolves from c2.
NextChain ==
    \/ \E in \in ChainInputs : nops[Main] < MaxChainOps /\ CallAdd(Main, in)
    \/ \E T \in Types, cs \in ChainLists :
          nops[Main] < MaxChainOps /\ CallInject(Main, T, cs)
    \/ \E w \in Workers, T \in Types : CallInject(w, T, <<"c2">>)
    \/ \E t \in {Main} \cup Workers :
        \/ L25(t)
        \/ L45(t)
        \/ L49(t)
        \/ L54(t)
        \/ OnceDo(t)
        \/ OnceDone(t)
        \/ OnceReturn(t)
        \/ L51(t)

SpecChain == Init /\ [][NextChain]_vars

\* The Must variants next to the plain calls: one goroutine registers with
\* Add or MustAdd and resolves with Inject or MustInject, recovering from
\* the panics.
NextMust ==
    \/ \E in \in BothInputs : nops[Main] < MaxMustOps /\ CallAdd(Main, in)
    \/ \E in \in BothInputs : nops[Main] < MaxMustOps /\ CallMustAdd(Main, in)
    \/ \E T \in Types : nops[Main] < MaxMustOps /\ CallInject(Main, T, <<"c1">>)
    \/ \E T \in Types : nops[Main] < MaxMustOps /\ CallMustInject(Main, T, <<"c1">>)
    \/ \E T \in Types : nops[Main] < MaxMustOps /\ CallInjectTo(Main, T, <<"c1">>, Old)
    \/ L25(Main)
    \/ L35(Main)
    \/ L45(Main)
    \/ L49(Main)
    \/ L54(Main)
    \/ OnceDo(Main)
    \/ OnceDone(Main)
    \/ OnceReturn(Main)
    \/ L51(Main)
    \/ Unwind(Main)

SpecMust == Init /\ [][NextMust]_vars

\* Cyclic wiring under a fair scheduler: the main goroutine wires and
\* resolves, a worker resolves at the same time, and every goroutine that
\* can take a step eventually takes one.
StepLive(t) ==
    \/ L25(t)
    \/ L45(t)
    \/ L49(t)
    \/ L54(t)
    \/ OnceDo(t)
    \/ FactoryAdd(t)
    \/ OnceDone(t)
    \/ OnceReturn(t)
    \/ L51(t)

NextLive ==
    \/ \E in \in LiveInputs : nops[Main] < MaxLiveOps /\ CallAdd(Main, in)
    \/ \E T \in Types, cs \in LiveLists :
          nops[Main] < MaxLiveOps /\ CallInject(Main, T, cs)
    \/ \E w \in Workers, T \in Types : CallInject(w, T, <<"c2">>)
    \/ \E t \in {Main} \cup Workers : StepLive(t)

SpecLive ==
    /\ Init
    /\ [][NextLive]_vars
    /\ \A t \in {Main} \cup Workers : WF_vars(StepLive(t))

\* A provider shared by two containers, under a fair scheduler: the main
\* goroutine wires c1 and c2 and resolves from either.
StepShare ==
    \/ L25(Main)
    \/ L45(Main)
    \/ L49(Main)
    \/ L54(Main)
    \/ OnceDo(Main)
    \/ OnceDone(Main)
    \/ OnceReturn(Main)
    \/ L51(Main)

NextShare ==
    \/ \E in \in ShareInputs : nops[Main] < MaxShareOps /\ CallAdd(Main, in)
    \/ \E T \in Types, cs \in ShareLists :
          nops[Main] < MaxShareOps /\ CallInject(Main, T, cs)
    \/ StepShare

SpecShare ==
    /\ Init
    /\ [][NextShare]_vars
    /\ WF_vars(StepShare)

----------------------------------------------------------------------------
(* The slice revision, src/di.go: Container{providers []Provider, mu},
   Lazy with the firing sentinel, injectTo probing the providers in
   registration order.  One goroutine; a Lazy factory resolves its
   dependency with ShouldInject[R](c) and returns the nested error
   (README.md:341-366). *)

\* di.go:129: l.instance = (*firing)(nil) while the factory runs.
Firing == << "firing" >>

\* di.go:52-56: the slice holds a provider with the type key T.
DiHas(c, T) == \E k \in 1..Len(provlist[c]) : ID(provlist[c][k]) = T

CanCallDi(t) ==
    /\ stack[t] = <<>>
    /\ mode[t] = "run"
    /\ nops[t] < MaxDiOps

\* di.go:35-40 and 48-59: ShouldAdd(p); Add runs under the mutex.
ShouldAdd(t, c, p) ==
    /\ CanCallDi(t)
    /\ nops' = [nops EXCEPT ![t] = @ + 1]
    /\ LET e == [NoEv EXCEPT !.fn = "ShouldAdd", !.cs = <<c>>, !.ps = <<p>>] IN
       IF DiHas(c, ID(p))
         THEN /\ provlist' = provlist
              /\ ev' = Ev(t, [e EXCEPT !.err = DuplicateErr(ID(p))])
         ELSE /\ provlist' = [provlist EXCEPT ![c] = Append(@, p)]
              /\ ev' = Ev(t, e)
    /\ UNCHANGED <<lifevars, stored, providers, injecting, once, lvalue, lerr, stack,
                   ret, mode, calls, cyc, produced>>

\* The frame of ShouldInject[T](cs...): InjectTo at container i, injectTo
\* at provider k.
DiFrame(T, cs) ==
    [NoFrame EXCEPT !.fn = "injectTo", !.T = T, !.cs = cs, !.i = 1, !.k = 1,
                    !.pc = "D68"]

\* di.go:109-115: a goroutine calls ShouldInject[T](cs...).
CallShouldInject(t, T, cs) ==
    /\ CanCallDi(t)
    /\ nops' = [nops EXCEPT ![t] = @ + 1]
    /\ stack' = [stack EXCEPT ![t] = << DiFrame(T, cs) >>]
    /\ ev' = NoEvs
    /\ UNCHANGED <<lifevars, provlist, stored, providers, injecting, once, lvalue, lerr,
                   ret, mode, calls, cyc, produced>>

\* ShouldInject returns (v, e).  A factory that made the call returns
\* (README.md:341-366) and once.Do assigns l.instance, l.err (di.go:130).
DiReturn(t, f, v, e) ==
    LET rest == Tail(stack[t]) IN
    /\ ev' = Ev(t, [NoEv EXCEPT !.fn = "ShouldInject", !.T = f.T, !.cs = f.cs,
                                !.i = f.i, !.p = f.p, !.v = v, !.err = e])
    /\ IF rest = <<>>
         THEN /\ stack' = [stack EXCEPT ![t] = rest]
              /\ UNCHANGED <<lvalue, lerr, once, produced>>
         ELSE LET q == Head(rest).p
                  r == FactoryResult(q, v, e)
              IN  /\ stack' = [stack EXCEPT ![t] = Tail(rest)]
                  /\ lvalue' = [lvalue EXCEPT ![q] = r.v]
                  /\ lerr' = [lerr EXCEPT ![q] = r.err]
                  /\ once' = [once EXCEPT ![q] = "done"]
                  /\ produced' = [produced EXCEPT ![q] = r.v]

\* di.go:132-137 and 74-75: after once.Do the Lazy provider p fills the
\* destination when it has no error and the destination is a *T of its own
\* type; injectTo returns on ok, and also (not ok) when p has an error, and
\* InjectTo (di.go:82-86) then tries the next container.
DiAfter(t, f, p) ==
    IF lerr[p] = Nil /\ ID(p) = f.T
      THEN DiReturn(t, [f EXCEPT !.p = p], lvalue[p], Nil)
      ELSE /\ stack' = [stack EXCEPT ![t] =
                  << IF lerr[p] # Nil
                       THEN [f EXCEPT !.i = f.i + 1, !.k = 1, !.pc = "D68"]
                       ELSE [f EXCEPT !.k = f.k + 1, !.pc = "D68"] >> \o Tail(@)]
           /\ ev' = NoEvs
           /\ UNCHANGED <<lvalue, lerr, once, produced>>

\* di.go:67-77 and 81-87: one probe.  Past the last container the call
\* fails (di.go:112); past the last provider injectTo returns false; a
\* Lazy provider whose instance is the firing sentinel is skipped; a
\* Provide provider fills a destination of its own type (di.go:9-15); any
\* other Lazy provider goes through l.once.Do (di.go:128-131), which runs
\* the factory when the once is fresh.
D68(t) ==
    /\ Running(t, "injectTo", "D68")
    /\ LET f == Top(t)
           next(g) == /\ stack' = [stack EXCEPT ![t] = << g >> \o Tail(@)]
                      /\ ev' = NoEvs
                      /\ UNCHANGED <<lvalue, lerr, once, produced>>
       IN
       IF f.i > Len(f.cs)
         THEN DiReturn(t, f, Zero, NotFoundErr(f.T)) /\ calls' = calls
         ELSE IF f.k > Len(provlist[f.cs[f.i]])
           THEN next([f EXCEPT !.i = f.i + 1, !.k = 1]) /\ calls' = calls
           ELSE LET c == f.cs[f.i]
                    p == provlist[c][f.k]
                IN
                IF ProvDef[p].kind = "value"
                  THEN /\ calls' = calls
                       /\ IF ID(p) = f.T
                            THEN DiReturn(t, [f EXCEPT !.p = p], Val(p), Nil)
                            ELSE next([f EXCEPT !.k = f.k + 1])
                  ELSE IF lvalue[p] = Firing
                    THEN next([f EXCEPT !.k = f.k + 1]) /\ calls' = calls
                    ELSE IF once[p] = "done"
                      THEN DiAfter(t, f, p) /\ calls' = calls
                      ELSE /\ once[p] = "new"
                           /\ calls' = [calls EXCEPT ![p] = @ + 1]
                           /\ ev' = NoEvs
                           /\ IF ProvDef[p].dep = NoType
                                THEN LET r == UserFn(p, Zero) IN
                                     /\ lvalue' = [lvalue EXCEPT ![p] = r.v]
                                     /\ lerr' = [lerr EXCEPT ![p] = r.err]
                                     /\ once' = [once EXCEPT ![p] = "done"]
                                     /\ produced' = [produced EXCEPT ![p] = r.v]
                                     /\ stack' = [stack EXCEPT ![t] =
                                            << [f EXCEPT !.pc = "D74", !.p = p] >> \o Tail(@)]
                                ELSE /\ lvalue' = [lvalue EXCEPT ![p] = Firing]
                                     /\ once' = [once EXCEPT ![p] = "running"]
                                     /\ UNCHANGED <<lerr, produced>>
                                     /\ stack' = [stack EXCEPT ![t] =
                                            << DiFrame(ProvDef[p].dep, <<c>>),
                                               FactoryFrame(p, c),
                                               [f EXCEPT !.pc = "D74", !.p = p] >> \o Tail(@)]
    /\ UNCHANGED <<lifevars, provlist, stored, providers, injecting, ret, mode, cyc, nops>>

\* di.go:132-137 and 74: the factory the probe started has returned.
D74(t) ==
    /\ Running(t, "injectTo", "D74")
    /\ DiAfter(t, Top(t), Top(t).p)
    /\ UNCHANGED <<lifevars, provlist, stored, providers, injecting, ret, mode, calls,
                   cyc, nops>>

NextDi ==
    \/ \E p \in DiProvs : ShouldAdd(Main, "c1", p)
    \/ \E T \in Types : CallShouldInject(Main, T, <<"c1">>)
    \/ D68(Main)
    \/ D74(Main)

SpecDi == Init /\ [][NextDi]_vars

----------------------------------------------------------------------------
(* The Lifecycle helper of examples/10-lifecycle-cleanup/main.go:58-93:
   Lifecycle{hooks []func(context.Context) error, hooksMutex sync.Mutex}. *)

\* main.go:71-75: AddShutdownHook appends the hook under the mutex.  The
\* call waits while Shutdown holds the mutex.
AddShutdownHook(h) ==
    /\ ~hooksMutex
    /\ h \notin {hooks[k] : k \in 1..Len(hooks)}
    /\ hooks' = Append(hooks, h)
    /\ UNCHANGED <<hooksMutex, shutdown, godivars>>

\* main.go:78-84: Shutdown takes the mutex (released by the deferred Unlock
\* when it returns) and starts its loop at the last hook.
ShutdownLock ==
    /\ shutdown.pc \in {"idle", "returned"}
    /\ shutdown.n < MaxShutdowns
    /\ ~hooksMutex
    /\ hooksMutex' = TRUE
    /\ shutdown' = [NoShutdown EXCEPT !.pc = "loop", !.i = Len(hooks),
                                      !.n = shutdown.n + 1]
    /\ UNCHANGED <<hooks, godivars>>

\* A Shutdown whose loop ends at the first hook that returns an error.
ShutdownHook_StopOnError(err) ==
    /\ shutdown.pc = "loop"
    /\ shutdown.i >= 1
    /\ err \in HookResults(hooks[shutdown.i])
    /\ shutdown' = [shutdown EXCEPT
            !.ran = Append(@, hooks[shutdown.i]),
            !.printed = IF err # Nil THEN Append(@, shutdown.i) ELSE @,
            !.i = IF err # Nil THEN 0 ELSE @ - 1]
    /\ UNCHANGED <<hooks, hooksMutex, godivars>>

\* main.go:84-88: one iteration of the loop: invoke hooks[i], print its
\* error if it returns one, and go on with i - 1.
ShutdownHook(err) ==
    /\ shutdown.pc = "loop"
    /\ shutdown.i >= 1
    /\ err \in HookResults(hooks[shutdown.i])
    /\ shutdown' = [shutdown EXCEPT
            !.ran = Append(@, hooks[shutdown.i]),
            !.printed = IF err # Nil THEN Append(@, shutdown.i) ELSE @,
            !.i = @ - 1]
    /\ UNCHANGED <<hooks, hooksMutex, godivars>>

\* main.go:84 and 91-92: the loop is over (i < 0 in the source's 0-based
\* index); Shutdown returns nil and the deferred Unlock releases the mutex.
ShutdownReturn ==
    /\ shutdown.pc = "loop"
    /\ shutdown.i = 0
    /\ shutdown' = [shutdown EXCEPT !.pc = "returned", !.ret = Nil]
    /\ hooksMutex' = FALSE
    /\ UNCHANGED <<hooks, godivars>>

\* Goroutines register hooks while the main goroutine shuts down, once or
\* again.
NextLife ==
    \/ \E h \in Hooks : AddShutdownHook(h)
    \/ ShutdownLock
    \/ \E err \in {Nil, CtxErr} : ShutdownHook(err)
    \/ ShutdownReturn

SpecLife == Init /\ [][NextLife]_vars

----------------------------------------------------------------------------
(* Vocabulary of the properties *)

\* The goroutine's last step completed an InjectTo call.
Completed(t) == ev[t].fn = "InjectTo"
\* ... a call made by the goroutine itself, not by a factory.
TopLevel(t) == Completed(t) /\ stack[t] = <<>>
\* No provider was registered while the completed call ran.
Stable(t) == ev[t].gen = Registered
\* The error the call's own marker check raises (never a provider's error,
\* which Lazy wraps).
OwnCircular(t) == Completed(t) /\ ev[t].err = CircularErr(ev[t].T)

IsCircular(e, S) == e # Nil /\ Root(e).k = "circular" /\ Root(e).t \in S

----------------------------------------------------------------------------
(* C1 *)

\* C1: every Lazy factory is invoked at most once, exactly once when a call
\* has reached its provider, and every successful resolution through the
\* provider returns the value that invocation produced.
C1_LazyRunsOnce ==
    /\ \A p \in LazyIds : calls[p] <= 1 /\ (once[p] # "new" => calls[p] = 1)
    /\ \A t \in Threads :
         (Completed(t) /\ ev[t].err = Nil /\ ev[t].p \in LazyIds)
            => ev[t].v = produced[ev[t].p]

\* The main goroutine's second Inject[C] returned the value the single run
\* of the Lazy factory produced.
C1_Witness ==
    /\ TopLevel(Main)
    /\ nops[Main] = 3
    /\ ev[Main].p = "oC"
    /\ ev[Main].err = Nil
    /\ ev[Main].v = Val("oC")
    /\ calls["oC"] = 1
    /\ \A w \in Workers : nops[w] = 1

(* C2 *)

\* C2: a top-level Inject[T] on a container whose provider of T is a Lazy
\* provider with an independent factory returns the memoized value or the
\* memoized failure, whatever other goroutines are doing.
C2_MemoizedOutcomeOnly ==
    \A t \in Threads :
        (TopLevel(t) /\ Stable(t) /\ ev[t].cs = <<"c1">>
           /\ providers["c1"][ev[t].T] \in LazyIds
           /\ ProvDef[providers["c1"][ev[t].T]].dep = NoType)
        => LET p == providers["c1"][ev[t].T] IN
           /\ once[p] = "done"
           /\ \/ lerr[p] = Nil /\ ev[t].err = Nil /\ ev[t].v = lvalue[p]
              \/ lerr[p] # Nil /\ ev[t].err = CreateErr(ev[t].T, lerr[p])

(* C3 *)

C4_CircularOnlyWhenNested ==
    \A t \in Threads :
        OwnCircular(t)
        => \E f \in Frames(t) :
              /\ HoldsMarker(f)
              /\ f.T = ev[t].T
              /\ f.cs[f.i] = ev[t].cs[ev[t].i]

(* C5 *)

\* C5: when no InjectTo call is in progress, no type is marked resolving
\* in any container.
C5_IdleMeansUnmarked ==
    (\A t \in Threads : mode[t] = "run" /\ ~\E f \in Frames(t) : f.fn = "InjectTo")
    => \A c \in Containers : injecting[c] = {}

(* C6 *)

\* C6: once a panic has unwound InjectTo calls and the caller has
\* recovered, the types those calls were resolving are no longer marked.
C6_PanicUnmarks ==
    \A t \in Threads :
        ev[t].fn = "recover"
        => \A m \in ev[t].marks : m[2] \notin injecting[m[1]]

(* C7 *)

\* C7: a call for T that starts after T's Lazy provider memoized its
\* factory's error returns that error wrapped with T, and the factory has
\* run once.
C7_FailureReplayed ==
    \A t \in Threads :
        (Completed(t) /\ ev[t].late)
        => LET p == providers[ev[t].cs[1]][ev[t].T] IN
           /\ ev[t].err = CreateErr(ev[t].T, lerr[p])
           /\ calls[p] = 1

(* C8 *)

\* The first listed container holding a provider of the call's type.
FirstHolder(t) ==
    CHOOSE k \in 1..Len(ev[t].cs) :
        /\ providers[ev[t].cs[k]][ev[t].T] # NoProv
        /\ \A j \in 1..(k - 1) : providers[ev[t].cs[j]][ev[t].T] = NoProv

C9_SearchOrder ==
    \A t \in Threads :
        (TopLevel(t) /\ Stable(t) /\ ev[t].cs = <<"c1", "c2">>)
        => LET p1 == providers["c1"][ev[t].T]
               p2 == providers["c2"][ev[t].T]
           IN  /\ (p1 = NoProv /\ p2 # NoProv /\ ProvDef[p2].kind = "value")
                    => ev[t].err = Nil /\ ev[t].v = Val(p2)
               /\ (p1 # NoProv /\ ProvDef[p1].kind = "value" /\ p2 # NoProv)
                    => ev[t].err = Nil /\ ev[t].v = Val(p1) /\ ev[t].i = 1

(* C10 *)

\* C10: a call that reaches a container in which its type is marked ends in
\* that step, at that container, with the circular-dependency error for
\* the type.
C10_CircularIsFatal ==
    [][\A t \in Threads :
         (/\ Running(t, "InjectTo", "L45")
          /\ Top(t).i <= Len(Top(t).cs)
          /\ Top(t).T \in injecting[Top(t).cs[Top(t).i]]
          /\ stack'[t] # stack[t])
         => /\ ev'[t].fn = "InjectTo"
            /\ ev'[t].err = CircularErr(Top(t).T)
            /\ ev'[t].cs = Top(t).cs
            /\ ev'[t].i = Top(t).i
            /\ ev'[t].v = Zero
            /\ injecting' = injecting]_vars

\* InjectTo(A, c1, c2) failed at c1 with the circular-dependency error
\* although c2 holds a provider of A.
C10_Witness ==
    /\ OwnCircular(Main)
    /\ ev[Main].cs = <<"c1", "c2">>
    /\ ev[Main].i = 1
    /\ providers["c2"]["A"] = "pA"
    /\ ev[Main].T = "A"

----------------------------------------------------------------------------
(* Registration: C11 - C16 *)

\* The providers Add calls have stored in c under the type key T.
Accepted(c, T) ==
    {p \in ProvIds : ID(p) = T /\ \E t \in Threads : <<c, p>> \in stored[t]}
\* The goroutine's last step ended an Add call.
AddDone(t) == ev[t].fn = "Add"

(* C11 *)

\* C11: under every interleaving of Add and MustAdd calls, the providers a
\* container has accepted under a type key are at most one, the one it
\* holds, and no provider was stored by two calls.
C11_OneProviderPerKey ==
    /\ \A c \in Containers, T \in Types :
         /\ Cardinality(Accepted(c, T)) <= 1
         /\ Accepted(c, T) = (IF providers[c][T] = NoProv THEN {} ELSE {providers[c][T]})
    /\ \A t, u \in Threads : t # u => stored[t] \cap stored[u] = {}

\* Add(Provide(x)) of one goroutine failed on the key A that another
\* goroutine's Add(.., Provide(y), ..), still running, has stored.
C11_Witness ==
    /\ AddDone("w1")
    /\ ev["w1"].ps = <<"pA">>
    /\ ev["w1"].err = DuplicateErr("A")
    /\ Running("w2", "Add", "L25")
    /\ <<"c1", "qA">> \in stored["w2"]
    /\ providers["c1"]["A"] = "qA"

(* C12 *)

\* C12: once a container holds a Provide provider for T, it keeps that
\* provider; every Add that reaches a provider of T in it returns the
\* duplicate error for T; and every resolution of T that evaluates the
\* container's provider returns that provider's value.
C12_FirstProviderStays ==
    [][\A c \in Containers, T \in Types :
         LET p == providers[c][T] IN
         (p # NoProv /\ ProvDef[p].kind = "value")
         => /\ providers'[c][T] = p
            /\ \A t \in Threads :
                 (/\ Running(t, "Add", "L25")
                  /\ Top(t).cs[1] = c
                  /\ Top(t).i <= Len(Top(t).ps)
                  /\ ID(Top(t).ps[Top(t).i]) = T
                  /\ stack'[t] # stack[t])
                 => /\ ev'[t].fn = "Add"
                    /\ ev'[t].err = DuplicateErr(T)
            /\ \A t \in Threads :
                 (/\ ev'[t].fn = "InjectTo"
                  /\ ev'[t].T = T
                  /\ ev'[t].p # NoProv
                  /\ ev'[t].cs[ev'[t].i] = c)
                 => /\ ev'[t].p = p
                    /\ ev'[t].v = Val(p)
                    /\ ev'[t].err = Nil]_vars

\* After the main goroutine's Add(Provide(x)) the two other goroutines'
\* calls for the same key stored nothing, and Inject[A] returned x.
C12_Witness ==
    /\ TopLevel(Main)
    /\ ev[Main].T = "A"
    /\ ev[Main].v = Val("pA")
    /\ ev[Main].err = Nil
    /\ stored[Main] = {<<"c1", "pA">>}
    /\ \A t \in Adders : nops[t] = 1 /\ stack[t] = <<>> /\ stored[t] = {}

(* C13 *)

\* C13 as stated: an Add call that fails leaves the container's providers
\* as they were when it started (no other goroutine registers).
C13_FailedAddLeavesRegistry ==
    \A t \in Threads :
        (AddDone(t) /\ ev[t].err # Nil) => Registered = ev[t].gen

\* C13 amended: an Add call that fails at its i-th provider has registered
\* exactly the i-1 providers listed before it, which the container holds;
\* the duplicate and the providers after it are not registered by the call
\* (no other goroutine registers).
C13_FailedAddKeepsPrefix ==
    \A t \in Threads :
        (AddDone(t) /\ ev[t].err # Nil)
        => /\ ev[t].i \in 1..Len(ev[t].ps)
           /\ Registered = ev[t].gen + (ev[t].i - 1)
           /\ \A j \in 1..(ev[t].i - 1) :
                 providers[ev[t].cs[1]][ID(ev[t].ps[j])] = ev[t].ps[j]
           /\ providers[ev[t].cs[1]][ID(ev[t].ps[ev[t].i])] # NoProv

\* Add(lazy A, lazy B, lazy C) on a container holding only a provider of B
\* failed at B, with A registered and C not.
C13_Witness ==
    /\ AddDone(Main)
    /\ ev[Main].ps = <<"lA", "kB", "kC">>
    /\ ev[Main].err = DuplicateErr("B")
    /\ ev[Main].gen = 1
    /\ providers["c1"] = [T \in Types |->
            IF T = "A" THEN "lA" ELSE IF T = "B" THEN "mB" ELSE NoProv]

(* C14 *)

\* C14: an Add call has stored the providers before its index, in argument
\* order; each turn either stores the provider at the index and moves to
\* the next, or, the key being held, ends the call with the duplicate
\* error for that provider's type, storing nothing.
C14_AddFailsFast ==
    [][\A t \in Threads :
         (Running(t, "Add", "L25") /\ Top(t).i <= Len(Top(t).ps))
         => LET f == Top(t)
                c == f.cs[1]
                p == f.ps[f.i]
            IN  /\ \A j \in 1..(f.i - 1) : <<c, f.ps[j]>> \in stored[t]
                /\ stack'[t] # stack[t]
                     => IF providers[c][ID(p)] # NoProv
                          THEN /\ ev'[t].fn = "Add"
                               /\ ev'[t].err = DuplicateErr(ID(p))
                               /\ ev'[t].i = f.i
                               /\ providers' = providers
                               /\ stored' = stored
                               /\ ~\E g \in Frames(t)' : g.fn = "Add"
                          ELSE /\ providers' = [providers EXCEPT ![c][ID(p)] = p]
                               /\ stored'[t] = stored[t] \cup {<<c, p>>}
                               /\ IF f.i = Len(f.ps)
                                    THEN ev'[t].fn = "Add" /\ ev'[t].err = Nil
                                    ELSE Top(t)' = [f EXCEPT !.i = f.i + 1]]_vars

\* Add(Provide B, Provide A, Provide C) failed at A, held by another
\* goroutine's provider: B is registered, C is not.
C14_Witness ==
    /\ \E t \in Adders :
         /\ AddDone(t)
         /\ ev[t].ps = <<"pB", "qA", "pC">>
         /\ ev[t].err = DuplicateErr("A")
         /\ ev[t].i = 2
         /\ stored[t] = {<<"c1", "pB">>}
    /\ providers["c1"]["C"] = NoProv
    /\ providers["c1"]["A"] = "pA"

(* C15 *)

\* The goroutines that have stored a provider under the key T of c.
Winners(c, T) ==
    {t \in Threads : \E p \in ProvIds : ID(p) = T /\ <<c, p>> \in stored[t]}

\* C15: for every type key at most one goroutine's Add has installed a
\* provider, and the container holds that provider; an Add that returns
\* nil has installed all its providers; an Add that fails found the key
\* held by the winner's provider and installed nothing for it.
C15_OneWinner ==
    /\ \A c \in Containers, T \in Types :
         /\ Cardinality(Winners(c, T)) <= 1
         /\ \A t \in Winners(c, T) : <<c, providers[c][T]>> \in stored[t]
    /\ \A t \in Threads :
         AddDone(t)
         => LET c == ev[t].cs[1] IN
            IF ev[t].err = Nil
              THEN \A j \in 1..Len(ev[t].ps) :
                      /\ <<c, ev[t].ps[j]>> \in stored[t]
                      /\ providers[c][ID(ev[t].ps[j])] = ev[t].ps[j]
              ELSE LET T == ID(ev[t].ps[ev[t].i]) IN
                   /\ ev[t].err = DuplicateErr(T)
                   /\ Cardinality(Winners(c, T)) = 1
                   /\ (ev[t].ps[ev[t].i] # providers[c][T])
                        => <<c, ev[t].ps[ev[t].i]>> \notin stored[t]

\* Two goroutines called Add for the key A on the empty container; one
\* installed Provide(y), the other returned the duplicate error.
C15_Witness ==
    /\ AddDone("w1")
    /\ ev["w1"].ps = <<"pA">>
    /\ ev["w1"].gen = 0
    /\ ev["w1"].err = DuplicateErr("A")
    /\ stored["w2"] = {<<"c1", "qA">>}
    /\ stack["w2"] = <<>>
    /\ nops[Main] = 0

(* C16 *)

\* C16: every provider a goroutine's Add stored is held by the container;
\* an Add fails only on a type some call has registered; and a resolution
\* by the main goroutine of a type registered when it started returns the
\* registered value.
C16_NoLostRegistration ==
    /\ \A t \in Threads : \A x \in stored[t] : providers[x[1]][ID(x[2])] = x[2]
    /\ Registered = Cardinality(UNION {stored[t] : t \in Threads})
    /\ \A t \in Threads :
         (AddDone(t) /\ ev[t].err # Nil)
         => Accepted(ev[t].cs[1], ID(ev[t].ps[ev[t].i])) # {}
    /\ (TopLevel(Main) /\ providers[ev[Main].cs[1]][ev[Main].T] # NoProv
           /\ Stable(Main))
         => /\ ev[Main].err = Nil
            /\ ev[Main].v = Val(providers[ev[Main].cs[1]][ev[Main].T])

\* Three goroutines registered A, B and C on the empty container, each
\* with its own Add, and the main goroutine then resolved B.
C16_Witness ==
    /\ stored[Main] = {<<"c1", "pA">>}
    /\ stored["w1"] = {<<"c1", "pB">>}
    /\ stored["w2"] = {<<"c1", "pC">>}
    /\ TopLevel(Main)
    /\ ev[Main].T = "B"
    /\ ev[Main].v = Val("pB")
    /\ ev[Main].err = Nil

----------------------------------------------------------------------------
(* Resolution of registered and of missing types: C17, C19, C20 *)

(* C17 *)

\* C17: every Inject[T] a goroutine makes on the container c1, whose
\* provider of T is Provide(v), returns (v, nil), whatever the other
\* goroutines are doing.
C17_ConcurrentInjectSucceeds ==
    \A t \in Threads :
        (TopLevel(t) /\ Stable(t) /\ ev[t].cs = <<"c1">>
           /\ providers["c1"][ev[t].T] # NoProv
           /\ ProvDef[providers["c1"][ev[t].T]].kind = "value")
        => /\ ev[t].err = Nil
           /\ ev[t].v = Val(providers["c1"][ev[t].T])

(* C19 *)

\* C19: a resolution of T over a list whose first container holds
\* Provide(v) for T ends at that container, returns no error and has
\* written v into the destination.
C19_RoundTrip ==
    \A t \in Threads :
        (Completed(t) /\ Stable(t) /\ ev[t].cs # <<>>
           /\ providers[ev[t].cs[1]][ev[t].T] # NoProv
           /\ ProvDef[providers[ev[t].cs[1]][ev[t].T]].kind = "value")
        => /\ ev[t].i = 1
           /\ ev[t].p = providers[ev[t].cs[1]][ev[t].T]
           /\ ev[t].err = Nil
           /\ ev[t].v = Val(ev[t].p)

(* C20 *)

\* C20: a resolution of T over containers none of which holds a provider
\* of T returns the not-found error for T and leaves the destination
\* alone.
C20_NotFound ==
    \A t \in Threads :
        (Completed(t) /\ Stable(t)
           /\ \A k \in 1..Len(ev[t].cs) : providers[ev[t].cs[k]][ev[t].T] = NoProv)
        => /\ ev[t].err = NotFoundErr(ev[t].T)
           /\ ev[t].v = Zero

----------------------------------------------------------------------------
(* C18 *)

\* C18: a Lazy factory is invoked only by a step of a resolution of its
\* own type (a top-level call or a factory's nested call), never by Add
\* and never by the resolution of another type.
C18_FactoryOnDemand ==
    [][\A p \in LazyIds :
         calls'[p] > calls[p]
         => \E t \in Threads :
               /\ stack[t] # <<>>
               /\ stack'[t] # stack[t]
               /\ Top(t).fn \in {"InjectTo", "injectTo"}
               /\ Top(t).T = ID(p)]_vars

----------------------------------------------------------------------------
(* Chain *)

\* The goroutine's last step completed the Inject[R](c) of a Chain's closure
\* (part_008:92), which has returned to the once of its provider.
ChainReturned(t) ==
    /\ Completed(t)
    /\ stack[t] # <<>>
    /\ Top(t).fn = "InjectTo"
    /\ Top(t).pc = "L82r"
    /\ ProvDef[Top(t).p].chain
    /\ ev[t].T = ProvDef[Top(t).p].dep

\* C21: when the registry of a Chain(f: R -> T) holds Provide(r) for R, the
\* Chain's closure resolves r and hands f(r) to its once; and whatever value
\* the resolution of R yields without an error (a value that another Chain
\* produced included), the closure hands f of it to its once.
C21_ChainApplies ==
    \A t \in Threads :
        ChainReturned(t) =>
            LET p == Top(t).p
                q == providers[ev[t].cs[1]][ev[t].T]
            IN  /\ ev[t].err = Nil => ret[t] = [v |-> Val(p) \o ev[t].v, err |-> Nil]
                /\ (Stable(t) /\ q # NoProv /\ ProvDef[q].kind = "value")
                      => ret[t] = [v |-> Val(p) \o Val(q), err |-> Nil]

----------------------------------------------------------------------------
(* C22 *)

\* C22: when the resolution of R made by a Chain(R -> T) fails, the Chain's
\* closure hands its once an error whose cause is that failure, and the user
\* function is not invoked (no value is produced).
C22_ChainFailsWithCause ==
    \A t \in Threads :
        (ChainReturned(t) /\ ev[t].err # Nil) =>
            /\ ret[t].err # Nil
            /\ Root(ret[t].err) = Root(ev[t].err)
            /\ ret[t].v = Zero

----------------------------------------------------------------------------
(* C23 *)

\* The value a provider yields: the captured value, or the memoized one.
Yield(p, memo) == IF ProvDef[p].kind = "value" THEN Val(p) ELSE memo[p]

\* C23: a step that completes an InjectTo made through MustInject starts a
\* panic exactly when the call's error is not nil, and one made through
\* Inject never does; either way a call without error hands back the value
\* of the provider it found.  A step that completes an Add made by MustAdd
\* starts a panic exactly when Add's error is not nil, a top-level Add never
\* does, and either way the providers before the failing one are stored and
\* the call stores nothing more; a MustAdd that returns holds all its
\* providers' keys.
C23_MustPanicsIffError ==
    [][ \A t \in Threads :
          LET e == ev'[t]
              panics == mode[t] = "run" /\ mode'[t] = "panic"
              outer == stack[t][Len(stack[t])]
          IN
          /\ (e.fn = "InjectTo" /\ stack[t] # <<>> /\ Len(stack[t]) = 1) =>
                /\ panics <=> (e.must /\ e.err # Nil)
                /\ e.err = Nil => e.v = Yield(e.p, lvalue')
          /\ (e.fn = "Add" /\ stack[t] # <<>>) =>
                /\ panics <=> (Len(stack[t]) = 2 /\ e.err # Nil)
                /\ e.err # Nil =>
                      /\ providers' = providers
                      /\ providers[e.cs[1]][ID(e.ps[e.i])] # NoProv
                      /\ \A j \in 1..(outer.i - 1) :
                            providers[e.cs[1]][ID(outer.ps[j])] = outer.ps[j]
                      /\ \A g \in Frames(t)' : g.fn # "Add"
          /\ e.fn = "MustAdd" =>
                /\ ~panics
                /\ \A j \in 1..Len(e.ps) : providers'[e.cs[1]][ID(e.ps[j])] # NoProv
      ]_vars

\* A MustAdd has panicked on a duplicate after storing its first provider,
\* and the goroutine's MustInject of a type without provider panics.
C23_Witness ==
    /\ ev[Main].fn = "InjectTo"
    /\ ev[Main].must
    /\ ev[Main].err = NotFoundErr("C")
    /\ mode[Main] = "panic"
    /\ providers["c1"]["B"] = "pB"
    /\ providers["c1"]["A"] = "pA"

----------------------------------------------------------------------------
(* C24 *)

\* C24: a provider asked to fill a destination of another type than its
\* own fails without a panic and without side effect: the probe runs no
\* factory and leaves the provider's memo cell and the destination as they
\* were, and the search goes on.
C24_MismatchIsPure ==
    [][ \A t \in Threads :
          (/\ Running(t, "injectTo", "D68")
           /\ stack'[t] # stack[t]
           /\ Top(t).i <= Len(Top(t).cs)
           /\ Top(t).k <= Len(provlist[Top(t).cs[Top(t).i]])
           /\ ID(provlist[Top(t).cs[Top(t).i]][Top(t).k]) # Top(t).T)
          => /\ calls' = calls
             /\ lvalue' = lvalue
             /\ lerr' = lerr
             /\ once' = once
             /\ mode' = mode
             /\ stack'[t] # <<>>
             /\ Head(stack'[t]).dst = Top(t).dst
      ]_vars

----------------------------------------------------------------------------
(* C25 *)

\* C25: every step of a resolution of T at a container that holds
\* Provide(v) for T leaves the containers' providers and every Lazy memo
\* cell as they were, and the step that completes the resolution returns v
\* without error and leaves no marker of T behind: the call can be repeated
\* with the same result.
C25_ValueIdempotent ==
    [][ \A t \in Threads :
          (/\ stack[t] # <<>>
           /\ stack'[t] # stack[t]
           /\ Top(t).fn = "InjectTo"
           /\ Top(t).i <= Len(Top(t).cs)
           /\ providers[Top(t).cs[Top(t).i]][Top(t).T] # NoProv
           /\ ProvDef[providers[Top(t).cs[Top(t).i]][Top(t).T]].kind = "value")
          => /\ UNCHANGED <<providers, once, lvalue, lerr, calls>>
             /\ ev'[t].fn = "InjectTo" =>
                   /\ ev'[t].err = Nil
                   /\ ev'[t].v = Val(providers[Top(t).cs[Top(t).i]][Top(t).T])
                   /\ Top(t).T \notin injecting'[Top(t).cs[Top(t).i]]
      ]_vars

----------------------------------------------------------------------------
(* C26 *)

----------------------------------------------------------------------------
(* C27 *)

\* A goroutine waits at a once that another call is running.
Blocked(t) ==
    Running(t, "InjectTo", "L82") /\ once[Top(t).p] = "running"

\* C27: no goroutine ever comes to wait at a once that a call is running,
\* and under a fair scheduler every call a goroutine has started returns:
\* whatever the wiring (acyclic, self-referential, cyclic within one
\* container or across two) and whatever the other goroutine does, a
\* goroutine inside a call is eventually outside it again.
C27_EveryCallReturns ==
    /\ [][\A t \in Threads : ~Blocked(t)']_vars
    /\ \A t \in {Main} \cup Workers : (stack[t] # <<>>) ~> (stack[t] = <<>>)

\* The worker's resolution of B from c2 has returned the circular-dependency
\* error raised on the cycle A@c1 -> B@c2 -> A@c1, while the main goroutine
\* is inside a call.
C27_Witness ==
    /\ providers["c1"]["A"] = "xA"
    /\ providers["c2"]["B"] = "xB"
    /\ ev["w1"].fn = "InjectTo"
    /\ stack["w1"] = <<>>
    /\ ev["w1"].T = "B"
    /\ IsCircular(ev["w1"].err, {"A", "B"})
    /\ stack[Main] # <<>>

----------------------------------------------------------------------------
(* C28 *)

\* C28: a Lazy provider whose factory only resolves a type that its
\* container provides with Provide (registered before it, by the same Add
\* call) and returns the nested error, never memoizes an error, whatever
\* resolutions were in progress while its factory ran.
C28_NoSpuriousMemo ==
    \A c \in Containers, T \in Types :
        LET p == providers[c][T] IN
        (/\ p \in LazyIds
         /\ ~ProvDef[p].fails
         /\ ~ProvDef[p].chain
         /\ ProvDef[p].dep # NoType
         /\ providers[c][ProvDef[p].dep] # NoProv
         /\ ProvDef[providers[c][ProvDef[p].dep]].kind = "value")
        => ~Failed(p)

----------------------------------------------------------------------------
(* C29 *)

\* C29: a resolution of T from a container whose provider of T is a
\* Provide provider, or a Lazy provider whose factory resolves nothing and
\* does not fail, returns that provider's value without error, whatever
\* providers of other types the container holds, wherever they stand in the
\* registration order and whatever they have memoized.
C29_UnrelatedProvidersIgnored ==
    \A t \in Threads :
        (/\ ev[t].fn = "ShouldInject"
         /\ stack[t] = <<>>)
        => \A k \in 1..Len(provlist[ev[t].cs[1]]) :
              LET p == provlist[ev[t].cs[1]][k] IN
              (ID(p) = ev[t].T /\ ProvDef[p].dep = NoType /\ ~ProvDef[p].fails)
              => /\ ev[t].err = Nil
                 /\ ev[t].v = UserFn(p, Zero).v

----------------------------------------------------------------------------
(* C30 *)

\* C30: whenever the user function of a Chain(R -> T) has been invoked, its
\* argument was the value that the container holding the Chain provides
\* for R, whichever containers the triggering call listed and whatever
\* they hold for R.
C30_ChainResolvesFromOwn ==
    \A p \in LazyIds :
        (ProvDef[p].chain /\ produced[p] \notin {NoVal, Zero}) =>
            \E c \in Containers :
                /\ providers[c][ID(p)] = p
                /\ providers[c][ProvDef[p].dep] # NoProv
                /\ produced[p] = Val(p) \o Yield(providers[c][ProvDef[p].dep], lvalue)

\* c1 holds "x" for A, c2 holds "y" for A and the Chain A -> B; a resolution
\* of B over (c1, c2) has returned the Chain's value, computed from "y".
C30_Witness ==
    /\ providers["c1"]["A"] = "pA"
    /\ providers["c2"]["A"] = "qA"
    /\ providers["c2"]["B"] = "cB"
    /\ TopLevel(Main)
    /\ ev[Main].T = "B"
    /\ ev[Main].cs = <<"c1", "c2">>
    /\ ev[Main].err = Nil
    /\ ev[Main].v = Val("cB") \o Val("qA")

----------------------------------------------------------------------------
(* C31 *)

\* The value the wiring of providers ps yields for provider p: the user
\* function applied to the value of its dependency.
RECURSIVE Wired(_, _, _)
Wired(p, ps, n) ==
    IF ProvDef[p].dep = NoType \/ n = 0 THEN Val(p)
    ELSE LET q == CHOOSE x \in ps : ID(x) = ProvDef[p].dep
         IN  Val(p) \o Wired(q, ps, n - 1)

\* C31: with the acyclic Lazy providers A -> B -> C registered in any order
\* and nothing resolved before, the first resolution of a type succeeds
\* with the value the wiring yields, and no factory has run more than once.
C31_OrderIndependent ==
    LET ps == {"lA", "kB", "oC"}
        held == {provlist["c1"][k] : k \in 1..Len(provlist["c1"])}
    IN  (/\ ev[Main].fn = "ShouldInject"
         /\ stack[Main] = <<>>
         /\ nops[Main] = 4
         /\ held = ps)
        => /\ ev[Main].err = Nil
           /\ \E p \in ps : ID(p) = ev[Main].T /\ ev[Main].v = Wired(p, ps, 3)
           /\ \A q \in ps : calls[q] <= 1

----------------------------------------------------------------------------
(* C32 *)

\* C32: a resolution that returns an error hands the destination back as it
\* was when the call started; for Inject, whose destination is a fresh
\* variable, that is the zero value.
C32_ErrorLeavesDestination ==
    \A t \in Threads :
        (Completed(t) /\ ev[t].err # Nil) => ev[t].v = ev[t].dst0

\* InjectTo into a variable holding a value has failed with the error of a
\* Lazy factory, and the variable still holds the value.
C32_Witness ==
    /\ TopLevel(Main)
    /\ ev[Main].dst0 = Old
    /\ ev[Main].p = "fA"
    /\ ev[Main].err = CreateErr("A", FactoryErr("A"))
    /\ ev[Main].v = Old

----------------------------------------------------------------------------
(* C33 *)

\* No step removes or replaces a registered provider.
Kept ==
    \A c \in Containers, T \in Types :
        providers[c][T] # NoProv => providers'[c][T] = providers[c][T]

\* The step is the LoadOrStore of an Add call, made by the program or by the
\* user function of a factory, storing the call's current provider under a
\* key that had none, and nothing else.
StoredByAdd ==
    \E t \in Threads :
        /\ stack'[t] # stack[t]
        /\ \/ Running(t, "Add", "L25") /\ Top(t).i <= Len(Top(t).ps)
           \/ Running(t, "factory", "LAdd")
        /\ LET c == Top(t).cs[1]
               q == IF Top(t).fn = "Add" THEN Top(t).ps[Top(t).i]
                                         ELSE Registers[Top(t).p]
           IN  /\ providers[c][ID(q)] = NoProv
               /\ providers' = [providers EXCEPT ![c][ID(q)] = q]

\* C33 as stated: no step removes or replaces a registered provider, the
\* providers change only in a step of Add, and only a successful Add has
\* changed them: an Add that returns an error leaves as many providers
\* registered as when it started.
C33_OnlySuccessfulAdd ==
    [][ /\ Kept
        /\ providers' # providers => StoredByAdd
        /\ \A t \in Threads :
              (ev'[t].fn = "Add" /\ ev'[t].err # Nil) => Registered' = ev'[t].gen
      ]_vars

\* C33 amended: no step removes or replaces a registered provider, and the
\* providers change only in a step of Add that stores one provider under a
\* free key, whether or not the call later returns an error; no step of
\* Inject, InjectTo or a Lazy closure changes them, a user function changes
\* them only by calling Add itself.
C33_AppendOnly ==
    [][ /\ Kept
        /\ providers' # providers => StoredByAdd
      ]_vars

\* A resolution has run the three factories of c1 and c1 still holds the
\* three providers.
C33_Witness ==
    /\ TopLevel(Main)
    /\ providers["c1"] = [T \in Types |->
            IF T = "A" THEN "lA" ELSE IF T = "B" THEN "kB" ELSE "kC"]
    /\ calls["lA"] = 1
    /\ calls["kB"] = 1
    /\ calls["kC"] = 1

----------------------------------------------------------------------------
(* C34 *)

\* The call goroutine t has just completed was made by the factory of yA,
\* held by c1, resolving A from c2 while A is marked in c1.
CrossResolved(t) ==
    /\ Completed(t)
    /\ ev[t].T = "A"
    /\ ev[t].cs = <<"c2">>
    /\ Running(t, "InjectTo", "L82r")
    /\ Top(t).p = "yA"
    /\ Top(t).cs[Top(t).i] = "c1"
    /\ "A" \in injecting["c1"]

\* C34: a step that marks T in one registry marks it in no other, and the
\* factory of a provider for A held by c1 that resolves A from c2 is never
\* answered with the circular-dependency error.
C34_MarkersPerRegistry ==
    /\ \A t \in Threads : CrossResolved(t) => ~OwnCircular(t)

\* The keying alone: no step adds a type to the markers of two registries.
C34_MarkStepIsLocal ==
    [][ \A c, d \in Containers :
          (c # d /\ injecting'[c] # injecting[c]) => injecting'[d] = injecting[d]
      ]_vars

----------------------------------------------------------------------------
(* C35 *)

\* C35: when c holds a provider of T, a completed call Inject[T](c) that
\* started when c already held it, and so every call that started after the
\* Add of that provider returned, was answered by that provider; a call
\* that started before the provider was stored was answered by that
\* provider or failed with not found.
C35_AddVisibleToInject ==
    \A t \in Threads :
        LET c == ev[t].cs[1]
            T == ev[t].T
        IN  (TopLevel(t) /\ Len(ev[t].cs) = 1 /\ providers[c][T] # NoProv) =>
                \/ ev[t].p = providers[c][T]
                \/ ev[t].p0 = NoProv /\ ev[t].p = NoProv /\ ev[t].err = NotFoundErr(T)

----------------------------------------------------------------------------
(* C36 *)

\* C36: in every reachable state no provider is held by two containers.
C36_ExclusiveOwner ==
    \A p \in ProvIds :
        Cardinality({c \in Containers : providers[c][ID(p)] = p}) <= 1

----------------------------------------------------------------------------
(* C37 *)

RECURSIVE Reverse(_)
Reverse(q) == IF q = <<>> THEN <<>> ELSE Append(Reverse(Tail(q)), Head(q))

\* C37: while Shutdown runs, the hooks it has invoked are the hooks
\* registered after its loop index, last registered first, each once,
\* whatever they returned, and the registered hooks do not change; when it
\* returns it has invoked every registered hook and its result is nil.
C37_ShutdownRunsAllLifo ==
    /\ [](shutdown.pc = "loop" =>
            shutdown.ran = Reverse(SubSeq(hooks, shutdown.i + 1, Len(hooks))))
    /\ [][ /\ shutdown.pc = "loop" => hooks' = hooks
           /\ (shutdown.pc = "loop" /\ shutdown'.pc = "returned") =>
                 /\ shutdown'.ran = Reverse(hooks)
                 /\ shutdown'.ret = Nil
         ]_vars

\* Shutdown has returned after three hooks, the first it invoked having
\* returned an error.
C37_Witness ==
    /\ shutdown.pc = "returned"
    /\ hooks = <<"dbClose", "cacheClose", "serviceShutdown">>
    /\ shutdown.ran = <<"serviceShutdown", "cacheClose", "dbClose">>
    /\ shutdown.printed = <<3>>
    /\ shutdown.ret = Nil

----------------------------------------------------------------------------
(* C38 *)

\* Goroutine t is at the once.Do of a Lazy provider whose factory it is
\* executing further down its own stack.
Reenters(t) ==
    /\ Running(t, "InjectTo", "L82")
    /\ \E k \in 2..Len(stack[t]) :
          stack[t][k].fn = "InjectTo" /\ stack[t][k].pc = "L82r"
              /\ stack[t][k].p = Top(t).p

\* C38: no goroutine ever reaches the once.Do of a Lazy provider whose
\* factory it is executing.
C38_NoReentry == \A t \in Threads : ~Reenters(t)
====
